---- MODULE Spec2Model ----
(***************************************************************************)
(* Model of the search-bridge service: the POST /search handler            *)
(* (app/main.py), the provider factory and the three providers             *)
(* (app/search.py).  One invocation of the handler is modelled from the    *)
(* moment the request has been validated into a SearchRequest until the    *)
(* handler returns an envelope or lets an exception escape.  The handler   *)
(* is a coroutine: it is cut into steps at its awaits (one step issues a   *)
(* network call, the next one consumes the backend's answer).              *)
(*                                                                         *)
(* Python values:                                                          *)
(*   Optional[T]   <<>> is None, <<v>> is the value v                      *)
(*   engine names  sequences of one-character strings, so that str.lower   *)
(*                 is computed character by character                      *)
(*   messages      sequences of text fragments (their concatenation)      *)
(*   dict          a function from keys to values                          *)
(***************************************************************************)
EXTENDS Integers, Sequences, FiniteSets, TLC

VARIABLES
    request,        \* the SearchRequest: engine, num_results, additional_params
    settings,       \* Settings: google_api_key, google_cx, bing_api_key
    pc,             \* position of the handler coroutine
    provider,       \* class of the object get_search_engine returned
    results,        \* the provider's local list `results`
    remaining,      \* GoogleSearch.search local
    start_index,    \* GoogleSearch.search local
    current_num,    \* GoogleSearch.search local
    params,         \* GoogleSearch.search local dict
    sent,           \* parameters of the outbound call last issued
    netCalls,       \* number of outbound network calls issued
    processed,      \* number of batch responses fully processed
    received,       \* total number of items received in processed batches
    lastLen,        \* number of items of the batch processed last (-1: none)
    lastStatus,     \* HTTP status of the answer consumed last (0: none)
    exhausted,      \* some batch fell short of the count asked for
    page,           \* result containers of the scraped page
    search_results, \* value returned by search_engine.search
    exc,            \* exception in flight / caught by the handler
    searchExc,      \* exception that left search_engine.search
    response,       \* the SearchResponse the handler returned
    outcome         \* "pending", "returned" or "raised"

vars == <<request, settings, pc, provider, results, remaining, start_index,
          current_num, params, sent, netCalls, processed, received, lastLen,
          lastStatus, exhausted, page, search_results, exc, searchExc,
          response, outcome>>

----------------------------------------------------------------------------
\* Bounds of the model
MaxNeg == 2          \* requested counts go down to -MaxNeg
MaxSmall == 26       \* ... and up to MaxSmall, plus a window around the clamp
MaxOver == 2         \* requested counts go up to the clamp + MaxOver
MaxItems == 11       \* a backend answer holds 0..MaxItems items
MaxContainers == 8   \* a scraped page holds 0..MaxContainers containers
MaxUntitled == 1     \* ... of which at most MaxUntitled lack a title element

\* Program constants
MaxResults == 100    \* GoogleSearch: "Limit to 100 results max"
BatchLimit == 10     \* GoogleSearch: max 10 results per request
BingLimit == 50      \* BingSearch: up to 50 results per request

----------------------------------------------------------------------------
\* Python values
None == <<>>
Some(v) == <<v>>
IsNone(x) == x = <<>>
Val(x) == x[1]

Min(a, b) == IF a <= b THEN a ELSE b
Max(a, b) == IF a >= b THEN a ELSE b

\* `not x` for an Optional[str]: None and "" are falsy
Falsy(x) == IsNone(x) \/ Val(x) = ""

\* seq[:n] : None keeps all, n >= 0 keeps the first n, n < 0 drops the last -n
PySlice(seq, n) ==
    IF IsNone(n) THEN seq
    ELSE IF Val(n) >= 0 THEN SubSeq(seq, 1, Min(Val(n), Len(seq)))
    ELSE SubSeq(seq, 1, Max(Len(seq) + Val(n), 0))

\* dict.update
DictUpdate(d, e) ==
    [k \in DOMAIN d \cup DOMAIN e |-> IF k \in DOMAIN e THEN e[k] ELSE d[k]]

\* d[key] = value
DictSet(d, key, value) ==
    [k \in DOMAIN d \cup {key} |-> IF k = key THEN value ELSE d[k]]

\* str.lower, character by character
UpperToLower ==
    [c \in {"G", "O", "L", "E", "B", "I", "N"} |->
        CASE c = "G" -> "g" [] c = "O" -> "o" [] c = "L" -> "l"
          [] c = "E" -> "e" [] c = "B" -> "b" [] c = "I" -> "i"
          [] c = "N" -> "n"]
LowerChar(c) == IF c \in DOMAIN UpperToLower THEN UpperToLower[c] ELSE c
Lower(s) == [i \in DOMAIN s |-> LowerChar(s[i])]

google == <<"g", "o", "o", "g", "l", "e">>
duckduckgo == <<"d", "u", "c", "k", "d", "u", "c", "k", "g", "o">>
bing == <<"b", "i", "n", "g">>

----------------------------------------------------------------------------
\* Exceptions.  HTTPException carries status_code and detail; the other
\* exception types carry only their message (status 0).
NoExc == [type |-> "none", status |-> 0, detail |-> <<>>]
HTTPException(status_code, detail) ==
    [type |-> "HTTPException", status |-> status_code, detail |-> detail]
Fault(type, message) == [type |-> type, status |-> 0, detail |-> <<message>>]

\* str(e): an HTTPException prints as "<status_code>: <detail>" (the
\* framework's __str__), any other exception as its message.  Items' titles,
\* links and snippets are not tracked: no step of the handler reads them.
Str(e) ==
    IF e.type = "HTTPException" THEN <<ToString(e.status), ": ">> \o e.detail
    ELSE e.detail

----------------------------------------------------------------------------
\* Requests and settings the service can be handed
EngineChoices ==
    { Some(google), Some(<<"G", "o", "o", "G", "l", "e">>), Some(duckduckgo),
      Some(<<"B", "I", "N", "G">>), Some(<<"y", "a", "h", "o", "o">>),
      Some(<<>>), None }

NumChoices ==
    {None} \cup
    { Some(n) : n \in ((0 - MaxNeg)..MaxSmall)
                      \cup ((MaxResults - 1)..(MaxResults + MaxOver)) }

EmptyDict == [k \in {} |-> 0]
ExtraChoices ==
    { None, Some(EmptyDict), Some(("start" :> 50) @@ ("num" :> 3)),
      Some("hl" :> "fr"), Some("query" :> "dogs") }

KeyChoices == {None, Some(""), Some("K")}

\* Named parameters of SearchEngine.search that the handler passes by keyword
SignatureNames == {"query", "num_results", "language", "country", "safe_search"}

\* What a backend can answer to one call
ErrorStatuses == {403, 503}
Answer(kind, status, body, n) ==
    [kind |-> kind, status |-> status, body |-> body, n |-> n]
Answers ==
    { Answer("fault", 0, "", 0), Answer("badjson", 200, "", 0),
      Answer("nofield", 200, "", 0) }
    \cup { Answer("http", s, "quota exceeded", 0) : s \in ErrorStatuses }
    \cup { Answer("items", 200, "", k) : k \in 0..MaxItems }

\* Scraped pages: a container either has a .result__title element or not
Untitled(p) == Cardinality({i \in DOMAIN p : ~p[i].hasTitle})
Pages ==
    UNION { { p \in [1..m -> [hasTitle : BOOLEAN]] : Untitled(p) <= MaxUntitled }
            : m \in 0..MaxContainers }

----------------------------------------------------------------------------
\* SearchResult.to_dict (the fields the properties speak of)
Record(title, source, position) ==
    [title |-> title, source |-> source, position |-> position]

\* SearchResponse
Envelope(query, res, total, engine, error) ==
    [query |-> query, results |-> res, total_results |-> total,
     engine |-> engine, error |-> error]
NoResponse == Envelope("", <<>>, 0, None, None)

\* pydantic validation of SearchResponse: `engine: str` rejects None
\* (query is a validated str, the other fields are built by the handler)
ValidResponse(r) == ~IsNone(r.engine)

----------------------------------------------------------------------------
\* Mutant: the final else falls through to the keyless provider
SelectProviderFallthrough(engine_name) ==
    IF IsNone(engine_name)
    THEN [ok |-> FALSE, class |-> "none",
          exc |-> Fault("AttributeError", "'NoneType' object has no attribute 'lower'")]
    ELSE LET name == Lower(Val(engine_name)) IN
         IF name = google THEN [ok |-> TRUE, class |-> "GoogleSearch", exc |-> NoExc]
         ELSE IF name = bing THEN [ok |-> TRUE, class |-> "BingSearch", exc |-> NoExc]
         ELSE [ok |-> TRUE, class |-> "DuckDuckGoSearch", exc |-> NoExc]

\* get_search_engine: the class selected for a name, or the failure raised.
\* None has no .lower (AttributeError); an unknown name is HTTP 400.
SelectProvider(engine_name) ==
    IF IsNone(engine_name)
    THEN [ok |-> FALSE, class |-> "none",
          exc |-> Fault("AttributeError", "'NoneType' object has no attribute 'lower'")]
    ELSE LET name == Lower(Val(engine_name)) IN
         IF name = google THEN [ok |-> TRUE, class |-> "GoogleSearch", exc |-> NoExc]
         ELSE IF name = duckduckgo
         THEN [ok |-> TRUE, class |-> "DuckDuckGoSearch", exc |-> NoExc]
         ELSE IF name = bing THEN [ok |-> TRUE, class |-> "BingSearch", exc |-> NoExc]
         ELSE [ok |-> FALSE, class |-> "none",
               exc |-> HTTPException(400, <<"Unsupported search engine: ", name>>)]

\* Binding of search_engine.search(query=..., ..., **request.additional_params):
\* ** of None, or a key that repeats a keyword already passed, is a TypeError
BindFault(extra) ==
    IF IsNone(extra)
    THEN Some(Fault("TypeError", "argument after ** must be a mapping, not NoneType"))
    ELSE IF DOMAIN Val(extra) \cap SignatureNames # {}
    THEN Some(Fault("TypeError", "got multiple values for keyword argument"))
    ELSE None

\* Mutant: `and` in place of `or`
GoogleNotConfiguredBoth(api_key, cx) == Falsy(api_key) /\ Falsy(cx)

\* GoogleSearch.search: `if not self.api_key or not self.cx`
GoogleNotConfigured(api_key, cx) == Falsy(api_key) \/ Falsy(cx)

\* GoogleSearch.search: the params dict before the loop (built-ins, then kwargs)
GoogleParams(api_key, cx, req, kwargs) ==
    DictUpdate(("key" :> api_key) @@ ("cx" :> cx) @@ ("q" :> req.query)
                 @@ ("hl" :> req.language) @@ ("gl" :> req.country)
                 @@ ("safe" :> IF req.safe_search THEN "active" ELSE "off"),
               kwargs)

\* Mutant: start and num are only defaults, values already in the dict win
GoogleCallParamsSetdefault(p, start, num) ==
    DictUpdate(("start" :> start) @@ ("num" :> num), p)

\* GoogleSearch.search: params["start"] = start_index; params["num"] = current_num
GoogleCallParams(p, start, num) == DictSet(DictSet(p, "start", start), "num", num)

\* Mutant: the requested count is not clamped
GoogleRemainingUnclamped(num_results) == num_results

\* GoogleSearch.search: remaining = min(num_results, 100)
GoogleRemaining(num_results) == Min(num_results, MaxResults)

\* GoogleSearch.search: current_num = min(remaining, 10)
CurrentNum(rem) == Min(rem, BatchLimit)

\* Mutant: one-based positions
GooglePositionOneBased(start, i) == start + i

\* GoogleSearch.search: the records of one batch of k items,
\* position = start_index + i - 1 for i = 0..k-1
GooglePosition(start, i) == start + i - 1
GoogleBatch(start, k) ==
    [j \in 1..k |-> Record("", "google", GooglePosition(start, j - 1))]

\* Mutant: only an empty batch ends the pagination
GoogleShortOnlyEmpty(k, num) == k = 0

\* GoogleSearch.search: `if len(data["items"]) < current_num: break`
GoogleShort(k, num) == k < num

\* GoogleSearch.search: the except clause around one batch call; every
\* exception raised inside the try, the HTTPException for a non-200 status
\* included, leaves as HTTPException(500, "Google search error: <str(e)>")
GoogleExcept(e) == HTTPException(500, <<"Google search error: ">> \o Str(e))

\* Mutant: the list is returned without the final truncation
GoogleFinalUntruncated(res, num_results) == res

\* GoogleSearch.search: return results[:num_results]
GoogleFinal(res, num_results) == PySlice(res, num_results)

\* The exception one answer raises inside a provider's try block, if any
AnswerFault(a, api) ==
    IF a.kind = "fault" THEN Some(Fault("ClientError", "Cannot connect to host"))
    ELSE IF a.kind = "http"
    THEN Some(HTTPException(a.status, <<api, " API error: ", a.body>>))
    ELSE IF a.kind = "badjson" THEN Some(Fault("ContentTypeError", "Attempt to decode JSON"))
    ELSE None

----------------------------------------------------------------------------
\* DuckDuckGoSearch.search: the record of the i-th container (i = 0, 1, ...):
\* title "No title" when the container has no .result__title element
DuckTitle(container) == IF container.hasTitle THEN "title" ELSE "No title"
\* Mutant: zero-based positions
DuckPositionZeroBased(i) == i
DuckPosition(i) == i + 1
DuckRecords(result_elements, num_results) ==
    LET kept == PySlice(result_elements, num_results) IN
    [j \in 1..Len(kept) |->
        Record(DuckTitle(kept[j]), "duckduckgo", DuckPosition(j - 1))]

\* DuckDuckGoSearch.search: the except clause around the whole call
DuckExcept(e) == HTTPException(500, <<"DuckDuckGo search error: ">> \o Str(e))

\* BingSearch.search: `if not self.api_key`
BingNotConfigured(api_key) == Falsy(api_key)

\* BingSearch.search: records of data["webPages"]["value"][:num_results]
BingRecords(k, num_results) ==
    LET kept == PySlice([j \in 1..k |-> j], num_results) IN
    [j \in 1..Len(kept) |-> Record("", "bing", j)]

\* BingSearch.search: the except clause around the call
BingExcept(e) == HTTPException(500, <<"Bing search error: ">> \o Str(e))

\* search (main.py): the envelope of a successful search
SuccessEnvelope(req, found) ==
    Envelope(req.query, found, Len(found), req.engine, None)

\* Mutant: the error envelope carries what the provider had accumulated
ErrorEnvelopePartial(req, e) ==
    Envelope(req.query, results, Len(results), req.engine, Some(Str(e)))

\* search (main.py): the envelope built in the except clause
ErrorEnvelope(req, e) ==
    Envelope(req.query, <<>>, 0, req.engine, Some(Str(e)))

----------------------------------------------------------------------------
Init ==
    /\ request \in [query : {"cats"}, engine : EngineChoices,
                    num_results : NumChoices, language : {"en"},
                    country : {"us"}, safe_search : {TRUE},
                    additional_params : ExtraChoices]
    /\ settings \in [google_api_key : KeyChoices,
                     google_cx : {None, Some("CX")},
                     bing_api_key : {None, Some("B")}]
    /\ pc = "start"
    /\ provider = "none"
    /\ results = <<>>
    /\ remaining = 0
    /\ start_index = 0
    /\ current_num = 0
    /\ params = EmptyDict
    /\ sent = EmptyDict
    /\ netCalls = 0
    /\ processed = 0
    /\ received = 0
    /\ lastLen = -1
    /\ lastStatus = 0
    /\ exhausted = FALSE
    /\ page = <<>>
    /\ search_results = <<>>
    /\ exc = NoExc
    /\ searchExc = NoExc
    /\ response = NoResponse
    /\ outcome = "pending"

googleLocals == <<results, remaining, start_index, current_num, params>>
ghosts == <<sent, netCalls, processed, received, lastLen, lastStatus, exhausted, page>>
handlerOut == <<search_results, response, outcome>>

\* An exception leaves search_engine.search and reaches the handler's except
RaiseFromSearch(e) ==
    /\ exc' = e
    /\ searchExc' = e
    /\ pc' = "except"

\* main.py 71: search_engine = get_search_engine(request.engine, settings)
Select ==
    /\ pc = "start"
    /\ LET sel == SelectProvider(request.engine) IN
       IF sel.ok
       THEN /\ provider' = sel.class
            /\ pc' = "call"
            /\ exc' = exc
       ELSE /\ provider' = provider
            /\ pc' = "except"
            /\ exc' = sel.exc
    /\ UNCHANGED <<request, settings, googleLocals, ghosts, handlerOut, searchExc>>

\* main.py 74-81: the call of search_engine.search binds its arguments
CallSearch ==
    /\ pc = "call"
    /\ LET f == BindFault(request.additional_params) IN
       IF IsNone(f)
       THEN /\ pc' = CASE provider = "GoogleSearch" -> "g_enter"
                       [] provider = "DuckDuckGoSearch" -> "d_enter"
                       [] provider = "BingSearch" -> "b_enter"
            /\ exc' = exc
       ELSE /\ pc' = "except"
            /\ exc' = Val(f)
    /\ UNCHANGED <<request, settings, provider, googleLocals, ghosts, handlerOut,
                   searchExc>>

\* search.py 66-85: credential check, then the locals of the pagination
GoogleEnter ==
    /\ pc = "g_enter"
    /\ IF GoogleNotConfigured(settings.google_api_key, settings.google_cx)
       THEN /\ RaiseFromSearch(HTTPException(500, <<"Google API key or CX not configured">>))
            /\ UNCHANGED googleLocals
       ELSE IF IsNone(request.num_results)
       THEN /\ RaiseFromSearch(Fault("TypeError", "'<' not supported between 'int' and 'NoneType'"))
            /\ UNCHANGED googleLocals
       ELSE /\ results' = <<>>
            /\ remaining' = GoogleRemaining(Val(request.num_results))
            /\ start_index' = 1
            /\ params' = GoogleParams(settings.google_api_key, settings.google_cx,
                                      request, Val(request.additional_params))
            /\ current_num' = current_num
            /\ pc' = "g_loop"
            /\ UNCHANGED <<exc, searchExc>>
    /\ UNCHANGED <<request, settings, provider, ghosts, handlerOut>>

\* search.py 88-97: one more batch is due; its call is issued
GoogleIssue ==
    /\ pc = "g_loop"
    /\ remaining > 0
    /\ current_num' = CurrentNum(remaining)
    /\ params' = GoogleCallParams(params, start_index, CurrentNum(remaining))
    /\ sent' = params'
    /\ netCalls' = netCalls + 1
    /\ pc' = "g_wait"
    /\ UNCHANGED <<request, settings, provider, results, remaining, start_index,
                   processed, received, lastLen, lastStatus, exhausted, page,
                   handlerOut, exc, searchExc>>

\* search.py 97-142: the answer to the batch call is consumed
GoogleRespond ==
    /\ pc = "g_wait"
    /\ \E a \in Answers :
        /\ lastStatus' = a.status
        /\ LET f == AnswerFault(a, "Google") IN
           IF ~IsNone(f)
           THEN /\ RaiseFromSearch(GoogleExcept(Val(f)))
                /\ UNCHANGED <<results, remaining, start_index, processed,
                               received, lastLen, exhausted>>
           ELSE IF a.kind = "nofield"
           THEN /\ pc' = "g_return"
                /\ processed' = processed + 1
                /\ lastLen' = 0
                /\ exhausted' = TRUE
                /\ UNCHANGED <<results, remaining, start_index, received, exc,
                               searchExc>>
           ELSE /\ results' = results \o GoogleBatch(start_index, a.n)
                /\ start_index' = start_index + a.n
                /\ remaining' = remaining - a.n
                /\ processed' = processed + 1
                /\ received' = received + a.n
                /\ lastLen' = a.n
                /\ exhausted' = (exhausted \/ a.n < current_num)
                /\ pc' = IF GoogleShort(a.n, current_num) THEN "g_return" ELSE "g_loop"
                /\ UNCHANGED <<exc, searchExc>>
    /\ UNCHANGED <<request, settings, provider, current_num, params, sent,
                   netCalls, page, handlerOut>>

\* search.py 144: the loop has ended; return results[:num_results]
GoogleReturn ==
    /\ \/ pc = "g_return"
       \/ pc = "g_loop" /\ remaining <= 0
    /\ search_results' = GoogleFinal(results, request.num_results)
    /\ pc' = "respond"
    /\ UNCHANGED <<request, settings, provider, googleLocals, ghosts, response,
                   outcome, exc, searchExc>>


\* search.py 177-189: the single POST of the scraped provider is issued
DuckIssue ==
    /\ pc = "d_enter"
    /\ results' = <<>>
    /\ netCalls' = netCalls + 1
    /\ pc' = "d_wait"
    /\ UNCHANGED <<request, settings, provider, remaining, start_index,
                   current_num, params, sent, processed, received, lastLen,
                   lastStatus, exhausted, page, handlerOut, exc, searchExc>>

\* search.py 189-229: the page (or the failure) is consumed
DuckRespond ==
    /\ pc = "d_wait"
    /\ \/ /\ lastStatus' = 0
          /\ RaiseFromSearch(DuckExcept(Fault("ClientError", "Cannot connect to host")))
          /\ UNCHANGED <<results, page, search_results>>
       \/ \E s \in ErrorStatuses :
          /\ lastStatus' = s
          /\ RaiseFromSearch(DuckExcept(HTTPException(s,
                 <<"DuckDuckGo search failed with status ", ToString(s)>>)))
          /\ UNCHANGED <<results, page, search_results>>
       \/ \E p \in Pages :
          /\ lastStatus' = 200
          /\ page' = p
          /\ results' = DuckRecords(p, request.num_results)
          /\ search_results' = results'
          /\ pc' = "respond"
          /\ UNCHANGED <<exc, searchExc>>
    /\ UNCHANGED <<request, settings, provider, remaining, start_index,
                   current_num, params, sent, netCalls, processed, received,
                   lastLen, exhausted, response, outcome>>

\* search.py 256-275: credential check, parameters, the single GET is issued
BingIssue ==
    /\ pc = "b_enter"
    /\ IF BingNotConfigured(settings.bing_api_key)
       THEN /\ RaiseFromSearch(HTTPException(500, <<"Bing API key not configured">>))
            /\ UNCHANGED <<results, sent, netCalls>>
       ELSE IF IsNone(request.num_results)
       THEN /\ RaiseFromSearch(Fault("TypeError", "'<' not supported between 'int' and 'NoneType'"))
            /\ UNCHANGED <<results, sent, netCalls>>
       ELSE /\ results' = <<>>
            /\ sent' = DictUpdate(("q" :> request.query)
                          @@ ("count" :> Min(Val(request.num_results), BingLimit)),
                          Val(request.additional_params))
            /\ netCalls' = netCalls + 1
            /\ pc' = "b_wait"
            /\ UNCHANGED <<exc, searchExc>>
    /\ UNCHANGED <<request, settings, provider, remaining, start_index,
                   current_num, params, processed, received, lastLen, lastStatus,
                   exhausted, page, handlerOut>>

\* search.py 275-307: the answer is consumed
BingRespond ==
    /\ pc = "b_wait"
    /\ \E a \in Answers :
        /\ lastStatus' = a.status
        /\ LET f == AnswerFault(a, "Bing") IN
           IF ~IsNone(f)
           THEN /\ RaiseFromSearch(BingExcept(Val(f)))
                /\ UNCHANGED <<results, search_results>>
           ELSE /\ results' = IF a.kind = "nofield" THEN <<>>
                              ELSE BingRecords(a.n, request.num_results)
                /\ search_results' = results'
                /\ pc' = "respond"
                /\ UNCHANGED <<exc, searchExc>>
    /\ UNCHANGED <<request, settings, provider, remaining, start_index,
                   current_num, params, sent, netCalls, processed, received,
                   lastLen, exhausted, page, response, outcome>>

\* main.py 83-96: the success envelope is built and returned; a validation
\* failure of SearchResponse is raised inside the try block
Respond ==
    /\ pc = "respond"
    /\ LET r == SuccessEnvelope(request, search_results) IN
       IF ValidResponse(r)
       THEN /\ response' = r
            /\ outcome' = "returned"
            /\ pc' = "done"
            /\ exc' = exc
       ELSE /\ exc' = Fault("ValidationError", "validation error for SearchResponse")
            /\ pc' = "except"
            /\ UNCHANGED <<response, outcome>>
    /\ UNCHANGED <<request, settings, provider, googleLocals, ghosts,
                   search_results, searchExc>>

\* main.py 98-110: the except clause builds the error envelope; a validation
\* failure of that SearchResponse is raised outside any try and escapes
HandleExcept ==
    /\ pc = "except"
    /\ LET r == ErrorEnvelope(request, exc) IN
       IF ValidResponse(r)
       THEN /\ response' = r
            /\ outcome' = "returned"
            /\ exc' = exc
       ELSE /\ exc' = Fault("ValidationError", "validation error for SearchResponse")
            /\ outcome' = "raised"
            /\ response' = response
    /\ pc' = "done"
    /\ UNCHANGED <<request, settings, provider, googleLocals, ghosts,
                   search_results, searchExc>>

Next ==
    \/ Select
    \/ CallSearch
    \/ GoogleEnter
    \/ GoogleIssue
    \/ GoogleRespond
    \/ GoogleReturn
    \/ DuckIssue
    \/ DuckRespond
    \/ BingIssue
    \/ BingRespond
    \/ Respond
    \/ HandleExcept

Spec == Init /\ [][Next]_vars

----------------------------------------------------------------------------
\* Properties

Supported == {google, duckduckgo, bing}
Names(engine) == ~IsNone(engine) /\ Lower(Val(engine)) = engine
RequestsGoogle == ~IsNone(request.engine) /\ Lower(Val(request.engine)) = google
SearchReturned == pc \in {"respond", "done"} /\ searchExc = NoExc /\ exc = NoExc
ErrorEnvelopeReturned ==
    /\ outcome = "returned"
    /\ response.results = <<>>
    /\ response.total_results = 0
    /\ ~IsNone(response.error)
Contiguous(seq, first) == \A i \in 1..Len(seq) : seq[i].position = first + i - 1
IncreasingFromZero(seq) ==
    /\ Len(seq) > 0 => seq[1].position = 0
    /\ \A i \in 1..(Len(seq) - 1) : seq[i].position < seq[i + 1].position

\* C1: for every request and every backend behaviour the handler returns an
\* envelope (no exception escapes it), and a returned envelope with a non-null
\* error has empty results and a count of 0.
C1_AlwaysEnvelope ==
    /\ outcome # "raised"
    /\ pc = "done" => outcome = "returned"
    /\ (outcome = "returned" /\ ~IsNone(response.error))
           => (response.results = <<>> /\ response.total_results = 0)

\* C2: a request whose provider name, lower-cased, is none of google,
\* duckduckgo, bing never issues a network call, and the handler returns an
\* envelope with empty results, count 0 and a non-null error.
C2_UnsupportedProvider ==
    (~IsNone(request.engine) /\ Lower(Val(request.engine)) \notin Supported)
        => /\ netCalls = 0
           /\ provider = "none"
           /\ pc = "done" => ErrorEnvelopeReturned
C2_Witness ==
    /\ pc = "done"
    /\ request.engine = Some(<<"y", "a", "h", "o", "o">>)
    /\ exc.status = 400
    /\ ErrorEnvelopeReturned

\* C3: a request for the Google provider with the API key or the engine
\* identifier absent still gets the provider selected; once search is entered
\* its credential check raises before any batch call; no network call is ever
\* issued and the handler returns an error envelope.
C3_MissingCredentials ==
    (RequestsGoogle /\ (Falsy(settings.google_api_key) \/ Falsy(settings.google_cx)))
        => /\ netCalls = 0
           /\ pc # "start" => provider = "GoogleSearch"
           /\ pc \in {"start", "call", "g_enter", "except", "done"}
           /\ (pc \in {"except", "done"} /\ IsNone(BindFault(request.additional_params)))
                  => /\ searchExc.type = "HTTPException"
                     /\ searchExc.detail = <<"Google API key or CX not configured">>
                     /\ processed = 0
           /\ pc = "done" => ErrorEnvelopeReturned
C3_Witness ==
    /\ pc = "done"
    /\ RequestsGoogle
    /\ IsNone(settings.google_api_key)
    /\ ~Falsy(settings.google_cx)
    /\ searchExc.detail = <<"Google API key or CX not configured">>
    /\ provider = "GoogleSearch"
    /\ ErrorEnvelopeReturned

\* C4 as stated: for the Google provider and a requested count <= 100, the
\* returned sequence is no longer than the requested count and its positions
\* are strictly increasing from 0.
C4_LengthAtMostRequested ==
    (provider = "GoogleSearch" /\ SearchReturned
        /\ Val(request.num_results) <= MaxResults)
        => /\ Len(search_results) <= Val(request.num_results)
           /\ IncreasingFromZero(search_results)

\* C4 amended: for the Google provider and a requested count <= 100, the
\* returned sequence is no longer than the requested count when that count is
\* >= 0 and is empty when it is negative, and its positions are strictly
\* increasing from 0.
C4_LengthAtMostRequestedOrEmpty ==
    (provider = "GoogleSearch" /\ SearchReturned
        /\ Val(request.num_results) <= MaxResults)
        => /\ Len(search_results) <= Max(Val(request.num_results), 0)
           /\ IncreasingFromZero(search_results)
C4_Witness ==
    /\ provider = "GoogleSearch"
    /\ SearchReturned
    /\ request.num_results = Some(12)
    /\ processed = 2
    /\ received > 12
    /\ Len(search_results) = 12
    /\ search_results[12].position = 11

\* C5: a batch of fewer than 10 items (a response without items field counts
\* as none) is the last one: no further batch call is issued after it.
C5_ShortBatchStops ==
    (provider = "GoogleSearch" /\ processed >= 1)
        => /\ netCalls > processed => lastLen >= BatchLimit
           /\ lastLen < BatchLimit
                  => /\ pc # "g_wait"
                     /\ netCalls = processed
                     /\ pc = "g_loop" => remaining <= 0
C5_Witness ==
    /\ provider = "GoogleSearch"
    /\ pc = "done"
    /\ processed = 2
    /\ netCalls = 2
    /\ lastLen = 3
    /\ remaining > 0

\* C6: when a batch call answers with a non-success status S, the failure
\* leaving GoogleSearch.search is an HTTPException whose status code is S and
\* whose message carries the upstream body.
C6_UpstreamStatusKept ==
    (provider = "GoogleSearch" /\ searchExc # NoExc /\ lastStatus \in ErrorStatuses)
        => /\ searchExc.type = "HTTPException"
           /\ searchExc.status = lastStatus
           /\ \E i \in DOMAIN searchExc.detail : searchExc.detail[i] = "quota exceeded"

\* C7: when a batch after the first fails (non-success status or transport
\* fault), search returns nothing, no further batch is issued, and the
\* handler's envelope has empty results, count 0 and a non-null error.
C7_AllOrNothing ==
    (provider = "GoogleSearch" /\ processed >= 1 /\ searchExc # NoExc)
        => /\ pc \in {"except", "done"}
           /\ netCalls = processed + 1
           /\ search_results = <<>>
           /\ pc = "done" => ErrorEnvelopeReturned
C7_Witness ==
    /\ provider = "GoogleSearch"
    /\ pc = "done"
    /\ processed = 2
    /\ Len(results) = 20
    /\ lastStatus = 503
    /\ searchExc # NoExc
    /\ ErrorEnvelopeReturned

\* C8: for a requested count n in 1..100 and a backend that never falls short
\* of the per-call count asked for, search returns exactly n records with
\* positions 0..n-1 in order.
C8_ExactCount ==
    (provider = "GoogleSearch" /\ SearchReturned /\ ~exhausted
        /\ Val(request.num_results) \in 1..MaxResults)
        => /\ Len(search_results) = Val(request.num_results)
           /\ Contiguous(search_results, 0)
           /\ pc = "done" => /\ outcome = "returned"
                             /\ response.results = search_results
                             /\ response.total_results = Val(request.num_results)
C8_Witness ==
    /\ provider = "GoogleSearch"
    /\ pc = "done"
    /\ request.num_results = Some(25)
    /\ processed = 3
    /\ received = 30
    /\ Len(response.results) = 25
    /\ response.results[25].position = 24

\* C9: for a requested count n >= 0 and a fetched page of m containers the
\* scraped provider issues exactly one call and returns min(n, m) records,
\* each with source "duckduckgo", at positions 1..min(n, m) in page order; a
\* container without title element is kept, with title "No title".
C9_ScrapedPage ==
    (provider = "DuckDuckGoSearch" /\ SearchReturned
        /\ ~IsNone(request.num_results) /\ Val(request.num_results) >= 0)
        => /\ netCalls = 1
           /\ Len(search_results) = Min(Val(request.num_results), Len(page))
           /\ Contiguous(search_results, 1)
           /\ \A i \in 1..Len(search_results) :
                 /\ search_results[i].source = "duckduckgo"
                 /\ page[i].hasTitle => search_results[i].title # "No title"
                 /\ ~page[i].hasTitle => search_results[i].title = "No title"
C9_Witness ==
    /\ provider = "DuckDuckGoSearch"
    /\ pc = "done"
    /\ request.num_results = Some(5)
    /\ Len(page) = 8
    /\ ~page[2].hasTitle
    /\ Len(response.results) = 5
    /\ response.results[2].title = "No title"
    /\ response.results[5].position = 5

\* C10: batch calls are strictly sequential: a call is in flight only when
\* every earlier batch has been processed; its start is 1 + the items received
\* so far and its num is min(min(requested, 100) - items received so far, 10),
\* whatever the caller's extra parameters hold.
C10_SequentialBatches ==
    provider = "GoogleSearch"
        => /\ netCalls \in {processed, processed + 1}
           /\ pc = "g_wait"
                  => /\ netCalls = processed + 1
                     /\ sent["start"] = 1 + received
                     /\ sent["num"] =
                            Min(Min(Val(request.num_results), MaxResults) - received,
                                BatchLimit)
           /\ pc = "g_loop" => netCalls = processed
C10_Witness ==
    /\ provider = "GoogleSearch"
    /\ pc = "g_wait"
    /\ request.num_results = Some(25)
    /\ request.additional_params = Some(("start" :> 50) @@ ("num" :> 3))
    /\ processed = 2
    /\ sent["start"] = 21
    /\ sent["num"] = 5

----------------------------------------------------------------------------
\* The handler under its scheduling: the event loop runs every step that is
\* ready, and every outbound call ends with an answer or a transport fault.
\* Only requests that select the Google provider are followed; the Bing key,
\* which that provider never reads, is left unset.
GoogleInit ==
    /\ Init
    /\ ~IsNone(request.engine)
    /\ Lower(Val(request.engine)) = google
    /\ IsNone(settings.bing_api_key)
GoogleNext ==
    \/ Select
    \/ CallSearch
    \/ GoogleEnter
    \/ GoogleIssue
    \/ GoogleRespond
    \/ GoogleReturn
    \/ Respond
    \/ HandleExcept
FairSpec == GoogleInit /\ [][GoogleNext]_vars /\ WF_vars(GoogleNext)

\* C11: a Google search issues at most 10 batch calls, and none at all for a
\* requested count <= 0; whatever the backend answers (batches of any size,
\* empty ones, failures) the pagination ends and the handler completes.
C11_PaginationTerminates ==
    /\ [](provider = "GoogleSearch"
            => /\ netCalls <= 10
               /\ (~IsNone(request.num_results) /\ Val(request.num_results) <= 0)
                      => netCalls = 0)
    /\ (provider = "GoogleSearch") ~> (pc = "done")
C11_Witness ==
    /\ provider = "GoogleSearch"
    /\ pc = "done"
    /\ request.num_results = Some(MaxResults + 1)
    /\ netCalls = 10
    /\ processed = 10
    /\ received = MaxResults
    /\ Len(response.results) = MaxResults

====
